---------------------------- MODULE Spec2Model ----------------------------
(*
  Roblox experience-stats scraper (src/usr/src/app/src/main.js).

  The module models
    - normalizeRecord        (the Record Normalizer),
    - extractIdsFromUrl      (the Identifier Resolver),
    - parseEmbeddedJson      (the Embedded-Data Extractor),
    - fetchRobloxGameApiByPlaceId / fetchRobloxGameApiByUniverseId,
    - cheerioHandler / playwrightHandler, one pipeline per request, run
      concurrently by the crawler and interleaved at their await points,
    - the two sinks (dataset.pushData, kv.setValue).

  JavaScript values are encoded as strings: "undefined", "null", "" (the
  empty string), "0" (the number zero); every other string is a truthy value.
  Objects are wrapped as [kind, fields] so that null, an object and an array
  are told apart without comparing values of different shapes.
*)
EXTENDS Integers, Sequences, FiniteSets, TLC

VARIABLES
  input,             \* the argument of the pure function under check
  output,            \* [status, value]: pending / returned / raised
  useApi,            \* input.useApi
  checkPlaceDetails, \* input.checkPlaceDetails
  useBrowser,        \* input.useBrowser: the crawler that runs
  scen,              \* request -> what the outside world holds for it
  pc,                \* request -> the await point its handler is at
  placeId,           \* request -> handler local `placeId`
  pageJson,          \* request -> handler local `pageJson`
  apiData,           \* request -> handler local `apiData`
  record,            \* request -> handler local `record`
  calls,             \* request -> the API operations invoked, in order
  dataset,           \* the dataset: the records appended, in order
  kv,                \* the key-value store: key -> value
  kvLog,             \* the requests whose kv.setValue resolved, in order
  sinkOps,           \* request -> the sink operations invoked, in order
  warnings           \* the requests for which log.warning was called

vars == <<input, output, useApi, checkPlaceDetails, useBrowser, scen, pc,
          placeId, pageJson, apiData, record, calls, dataset, kv, kvLog,
          sinkOps, warnings>>

pureVars == <<input, output>>
pipeVars == <<useApi, checkPlaceDetails, useBrowser, scen, pc, placeId,
              pageJson, apiData, record, calls, dataset, kv, kvLog, sinkOps,
              warnings>>

-----------------------------------------------------------------------------
(* JavaScript values *)

Undefined == "undefined"
Null      == "null"
EmptyStr  == ""
Zero      == "0"

\* the values `||` skips
Falsy == {Undefined, Null, EmptyStr, Zero}

Truthy(v) == v \notin Falsy

\* a || b
Or(a, b) == IF Truthy(a) THEN a ELSE b

NoFields == [k \in {} |-> Undefined]

NullObj  == [kind |-> "null", fields |-> NoFields]
Obj(f)   == [kind |-> "object", fields |-> f]
\* an empty JSON array: truthy, and it has none of the properties read
EmptyArr == [kind |-> "array", fields |-> NoFields]

\* an object reference is truthy; null is not
TruthyObj(o) == o.kind # "null"

\* a faulty variant, o.k for o?.k: reading a property of null throws
GetUnguarded(o, k) ==
  IF o.kind = "null" THEN "TypeError"
  ELSE IF k \in DOMAIN o.fields THEN o.fields[k] ELSE Undefined

\* o?.k
Get(o, k) == IF k \in DOMAIN o.fields THEN o.fields[k] ELSE Undefined

\* { ...a, ...b }: b's own properties override a's
Spread(a, b) ==
  [k \in (DOMAIN a) \cup (DOMAIN b) |-> IF k \in DOMAIN b THEN b[k] ELSE a[k]]

-----------------------------------------------------------------------------
(* normalizeRecord, main.js 112-130 *)

\* (apiData && apiData.creator && (apiData.creator.name || apiData.creator.creatorType))
\* the creator object is flattened: "creator" tells whether it is there,
\* "creator.name" and "creator.creatorType" are its two properties
ApiCreator(api) ==
  IF ~TruthyObj(api) THEN Null
  ELSE IF ~Truthy(Get(api, "creator")) THEN Get(api, "creator")
  ELSE Or(Get(api, "creator.name"), Get(api, "creator.creatorType"))

normalizeRecord(api, page, url, pid, now) ==
  [ experience_id |-> Or(Or(Get(api, "universeId"), Get(page, "experienceId")), Null),
    place_id      |-> Or(Or(Or(Or(pid, Get(api, "rootPlaceId")), Get(api, "placeId")),
                            Get(page, "placeId")), Null),
    name          |-> Or(Or(Get(api, "name"), Get(page, "name")), EmptyStr),
    creator       |-> Or(Or(ApiCreator(api), Get(page, "creator")), EmptyStr),
    visits        |-> Or(Or(Get(api, "visits"), Get(page, "visits")), Null),
    favorites     |-> Or(Or(Get(api, "favoritedCount"), Get(page, "favorites")), Null),
    playing       |-> Or(Or(Get(api, "playing"), Get(page, "playing")), Null),
    maxPlayers    |-> Or(Or(Get(api, "maxPlayers"), Get(page, "maxPlayers")), Null),
    price         |-> Or(Or(Get(api, "price"), Get(page, "price")), Null),
    genre         |-> Or(Or(Get(api, "genre"), Get(page, "genre")), EmptyStr),
    url           |-> url,
    raw_api       |-> IF TruthyObj(api) THEN api ELSE NullObj,
    raw_page      |-> IF TruthyObj(page) THEN page ELSE NullObj,
    extracted_at  |-> now ]


-----------------------------------------------------------------------------
(* The inputs normalizeRecord is checked on *)

\* what a property of a fragment holds
Shapes == {"absent", "null", "empty", "zero", "value"}

ShapeVal(s, v) ==
  CASE s = "null"  -> Null
    [] s = "empty" -> EmptyStr
    [] s = "zero"  -> Zero
    [] OTHER       -> v

\* the properties of apiData that normalizeRecord reads first ...
ApiFirstKeys == {"universeId", "rootPlaceId", "name", "creator.name", "visits",
                 "favoritedCount", "playing", "maxPlayers", "price", "genre"}
\* ... and those it reads as a second candidate
ApiSecondKeys == {"placeId", "creator.creatorType"}

PageKeys == {"experienceId", "placeId", "name", "creator", "visits",
             "favorites", "playing", "maxPlayers", "price", "genre"}

\* a truthy value of each property, tagged with where it comes from
ApiValue ==
  [ k \in ApiFirstKeys \cup ApiSecondKeys |->
      CASE k = "universeId"          -> "api.universeId"
        [] k = "rootPlaceId"         -> "api.rootPlaceId"
        [] k = "placeId"             -> "api.placeId"
        [] k = "name"                -> "api.name"
        [] k = "creator.name"        -> "api.creator.name"
        [] k = "creator.creatorType" -> "api.creator.creatorType"
        [] k = "visits"              -> "api.visits"
        [] k = "favoritedCount"      -> "api.favoritedCount"
        [] k = "playing"             -> "api.playing"
        [] k = "maxPlayers"          -> "api.maxPlayers"
        [] k = "price"               -> "api.price"
        [] OTHER                     -> "api.genre" ]

PageValue ==
  [ k \in PageKeys |->
      CASE k = "experienceId" -> "page.experienceId"
        [] k = "placeId"      -> "page.placeId"
        [] k = "name"         -> "page.name"
        [] k = "creator"      -> "page.creator"
        [] k = "visits"       -> "page.visits"
        [] k = "favorites"    -> "page.favorites"
        [] k = "playing"      -> "page.playing"
        [] k = "maxPlayers"   -> "page.maxPlayers"
        [] k = "price"        -> "page.price"
        [] OTHER              -> "page.genre" ]

\* an API fragment whose first-candidate properties all have shape a1 and
\* whose second-candidate properties all have shape a2; the creator object is
\* there when one of its properties is
ApiFragment(a1, a2) ==
  LET ks == (IF a1 = "absent" THEN {} ELSE ApiFirstKeys)
              \cup (IF a2 = "absent" THEN {} ELSE ApiSecondKeys)
              \cup (IF a1 = "absent" /\ a2 = "absent" THEN {} ELSE {"creator"})
  IN Obj([ k \in ks |->
            IF k = "creator" THEN "[object]"
            ELSE IF k \in ApiFirstKeys THEN ShapeVal(a1, ApiValue[k])
            ELSE ShapeVal(a2, ApiValue[k]) ])

PageFragment(p) ==
  Obj([ k \in (IF p = "absent" THEN {} ELSE PageKeys) |-> ShapeVal(p, PageValue[k]) ])

ApiFragments  == {NullObj} \cup {ApiFragment(a1, a2) : a1 \in Shapes, a2 \in Shapes}
PageFragments == {NullObj} \cup {PageFragment(p) : p \in Shapes}

Timestamp == "2026-01-01T00:00:00.000Z"

NormalizeInputs ==
  [ apiData  : ApiFragments,
    pageData : PageFragments,
    url      : {EmptyStr, "https://www.roblox.com/games/1818"},
    placeId  : {Null, EmptyStr, "1818"},
    now      : {Timestamp} ]

\* reading a property of null or undefined without ?. throws this
TypeError == "TypeError"

DataFields == {"experience_id", "place_id", "name", "creator", "visits",
               "favorites", "playing", "maxPlayers", "price", "genre"}

CanonicalFields == DataFields \cup {"url", "extracted_at"}

\* the value a data field holds when no source carries one
AbsentValue(f) == IF f \in {"name", "creator", "genre"} THEN EmptyStr ELSE Null

\* the pipeline's variables, when a pure function is what is checked
PipeIdle ==
  /\ useApi = FALSE /\ checkPlaceDetails = FALSE
  /\ useBrowser = FALSE /\ scen = <<>> /\ pc = <<>> /\ placeId = <<>>
  /\ pageJson = <<>> /\ apiData = <<>> /\ record = <<>> /\ calls = <<>>
  /\ dataset = <<>> /\ kv = <<>> /\ kvLog = <<>> /\ sinkOps = <<>>
  /\ warnings = {}

Pending == [status |-> "pending", value |-> Null]

InitNormalize ==
  /\ input \in NormalizeInputs
  /\ output = Pending
  /\ PipeIdle

\* one call normalizeRecord({ apiData, pageData, url, placeId })
Normalize ==
  /\ output.status = "pending"
  /\ LET r == normalizeRecord(input.apiData, input.pageData, input.url,
                              input.placeId, input.now)
     IN output' = IF \E f \in DataFields : r[f] = TypeError
                  THEN [status |-> "raised", value |-> TypeError]
                  ELSE [status |-> "returned", value |-> r]
  /\ UNCHANGED <<input, pipeVars>>

SpecNormalize == InitNormalize /\ [][Normalize]_vars

-----------------------------------------------------------------------------
(* C1, C2: the Record Normalizer *)

\* the candidates of a data field, in the order of the precedence table
Candidates(in, f) ==
  LET a == in.apiData
      p == in.pageData
  IN CASE f = "experience_id" -> <<Get(a, "universeId"), Get(p, "experienceId")>>
       [] f = "place_id"      -> <<in.placeId, Get(a, "rootPlaceId"),
                                   Get(a, "placeId"), Get(p, "placeId")>>
       [] f = "name"          -> <<Get(a, "name"), Get(p, "name")>>
       [] f = "creator"       -> <<Get(a, "creator.name"),
                                   Get(a, "creator.creatorType"), Get(p, "creator")>>
       [] f = "visits"        -> <<Get(a, "visits"), Get(p, "visits")>>
       [] f = "favorites"     -> <<Get(a, "favoritedCount"), Get(p, "favorites")>>
       [] f = "playing"       -> <<Get(a, "playing"), Get(p, "playing")>>
       [] f = "maxPlayers"    -> <<Get(a, "maxPlayers"), Get(p, "maxPlayers")>>
       [] f = "price"         -> <<Get(a, "price"), Get(p, "price")>>
       [] OTHER               -> <<Get(a, "genre"), Get(p, "genre")>>

\* a candidate carries a value unless it is absent, null or the empty string;
\* the number 0 is a value
CarriesValue(v) == v \notin {Undefined, Null, EmptyStr}

FirstCarrying(cs, absent) ==
  IF \E i \in 1..Len(cs) : CarriesValue(cs[i])
  THEN cs[CHOOSE i \in 1..Len(cs) :
            /\ CarriesValue(cs[i])
            /\ \A j \in 1..(i - 1) : ~CarriesValue(cs[j])]
  ELSE absent

\* C1: every data field of the record normalize returns is the first
\* candidate of the precedence table that carries a value (absent, null and
\* the empty string carry none; 0 and every non-zero value do), and it is the
\* field's absent value only when no candidate carries a value.
C1_FirstNonEmptyCandidate ==
  output.status = "returned" =>
    \A f \in DataFields :
      output.value[f] = FirstCarrying(Candidates(input, f), AbsentValue(f))

\* what C2 says of every call, whatever the fragments
NormalizeReturnsRecord ==
  /\ output.status # "raised"
  /\ output.status = "returned" =>
       /\ DOMAIN output.value = CanonicalFields \cup {"raw_api", "raw_page"}
       /\ output.value.url = input.url
       /\ Truthy(output.value.extracted_at)

BothNull == input.apiData = NullObj /\ input.pageData = NullObj

\* C2 as stated: normalize never raises; the record it returns has the twelve
\* canonical fields and raw_api, raw_page, its url is the input url and
\* extracted_at is populated; with apiData and pageData both null every data
\* field holds its absent value and raw_api, raw_page are null.
C2_Original ==
  /\ NormalizeReturnsRecord
  /\ (output.status = "returned" /\ BothNull) =>
       /\ \A f \in DataFields : output.value[f] = AbsentValue(f)
       /\ output.value.raw_api = NullObj
       /\ output.value.raw_page = NullObj

\* C2 as amended: the same, but with both fragments null place_id is the
\* explicit placeId parameter when one is passed (null when it is null or
\* empty); every other data field holds its absent value.
C2_NormalizeTotal ==
  /\ NormalizeReturnsRecord
  /\ (output.status = "returned" /\ BothNull) =>
       /\ \A f \in DataFields \ {"place_id"} : output.value[f] = AbsentValue(f)
       /\ output.value.place_id =
            (IF input.placeId \in {Null, EmptyStr} THEN Null ELSE input.placeId)
       /\ output.value.raw_api = NullObj
       /\ output.value.raw_page = NullObj

\* normalize has returned for apiData null and pageData null
C2_Witness ==
  /\ output.status = "returned"
  /\ BothNull
  /\ input.placeId = "1818"
  /\ output.value.place_id = "1818"
  /\ output.value.visits = Null

-----------------------------------------------------------------------------
(* extractIdsFromUrl, main.js 31-46 *)

(*
  A URL string is held as what the URL parser makes of it: whether it parses
  at all, its pathname as a token sequence, its query string as a sequence
  of <<name, value>> pairs. The tokens of a pathname are "/", the words
  "games" and "places", a maximal run of digits (held as that digit string,
  "1818") and a run of other characters ("x"). Two digit runs are never
  adjacent: they would be one run.
*)
DigitRuns == {"1818", "77", "42"}

IsDigits(t) == t \in DigitRuns

\* new URL(url): throws on a string with no scheme; the pathname of a URL
\* with an empty path is "/"
NewURL(u) ==
  [ throws       |-> u.scheme = EmptyStr,
    pathname     |-> IF u.path = <<>> THEN <<"/">> ELSE u.path,
    searchParams |-> u.query ]

\* pathname.match(/\/<word>\/(\d+)/): the capture of the leftmost match, or
\* null (no match)
MatchPath(pathname, word) ==
  LET at == { i \in 1..(Len(pathname) - 3) :
                /\ pathname[i] = "/"
                /\ pathname[i + 1] = word
                /\ pathname[i + 2] = "/"
                /\ IsDigits(pathname[i + 3]) }
  IN IF at = {} THEN Null
     ELSE pathname[(CHOOSE i \in at : \A j \in at : i <= j) + 3]

\* searchParams.get(name): the value of the first parameter of that name, or
\* null
SearchParamsGet(params, name) ==
  LET at == { i \in 1..Len(params) : params[i][1] = name }
  IN IF at = {} THEN Null
     ELSE params[CHOOSE i \in at : \A j \in at : i <= j][2]

\* /^\d+$/.test(q)
AllDigits(q) == IsDigits(q)

\* a faulty variant: /places/ is tried before ?id=
extractIdsFromUrl_PlacesBeforeId(u) ==
  LET url == NewURL(u)
      m   == MatchPath(url.pathname, "games")
      q   == Or(SearchParamsGet(url.searchParams, "id"), Null)
      m2  == MatchPath(url.pathname, "places")
  IN IF url.throws THEN [throws |-> FALSE, placeId |-> Undefined]
     ELSE IF m # Null THEN [throws |-> FALSE, placeId |-> m]
     ELSE IF m2 # Null THEN [throws |-> FALSE, placeId |-> m2]
     ELSE IF Truthy(q) /\ AllDigits(q) THEN [throws |-> FALSE, placeId |-> q]
     ELSE [throws |-> FALSE, placeId |-> Undefined]

\* the result {} is placeId |-> undefined; the catch block makes throws FALSE
extractIdsFromUrl(u) ==
  LET url == NewURL(u)
      m   == MatchPath(url.pathname, "games")
      q   == Or(SearchParamsGet(url.searchParams, "id"), Null)
      m2  == MatchPath(url.pathname, "places")
  IN IF url.throws THEN [throws |-> FALSE, placeId |-> Undefined]
     ELSE IF m # Null THEN [throws |-> FALSE, placeId |-> m]
     ELSE IF Truthy(q) /\ AllDigits(q) THEN [throws |-> FALSE, placeId |-> q]
     ELSE IF m2 # Null THEN [throws |-> FALSE, placeId |-> m2]
     ELSE [throws |-> FALSE, placeId |-> Undefined]

-----------------------------------------------------------------------------
(* The inputs extractIdsFromUrl is checked on *)

MaxSegments == 4
MaxParams   == 2

\* the path segments a URL is built from
Segments == { <<"games">>, <<"places">>, <<"1818">>, <<"77", "x">>, <<"x">> }

\* the query parameters a URL is built from
Params == { <<"id", "42">>, <<"id", "42x">>, <<"id", EmptyStr>>, <<"q", "77">> }

SeqsUpTo(S, n) == UNION { [1..k -> S] : k \in 0..n }

RECURSIVE JoinPath(_)
JoinPath(segs) ==
  IF segs = <<>> THEN <<>>
  ELSE <<"/">> \o Head(segs) \o JoinPath(Tail(segs))

ResolveInputs ==
  [ scheme : {"https:", EmptyStr},
    path   : { JoinPath(ss) : ss \in SeqsUpTo(Segments, MaxSegments) },
    query  : SeqsUpTo(Params, MaxParams) ]

InitResolve ==
  /\ input \in ResolveInputs
  /\ output = Pending
  /\ PipeIdle

\* one call extractIdsFromUrl(url)
Resolve ==
  /\ output.status = "pending"
  /\ LET r == extractIdsFromUrl(input)
     IN output' = IF r.throws
                  THEN [status |-> "raised", value |-> TypeError]
                  ELSE [status |-> "returned", value |-> r.placeId]
  /\ UNCHANGED <<input, pipeVars>>

SpecResolve == InitResolve /\ [][Resolve]_vars

-----------------------------------------------------------------------------
(* C3: the Identifier Resolver *)

\* the digit strings d such that the path holds /<word>/d
PathIds(u, word) ==
  { u.path[i + 3] : i \in { j \in 1..(Len(u.path) - 3) :
                              /\ u.path[j] = "/" /\ u.path[j + 1] = word
                              /\ u.path[j + 2] = "/" /\ IsDigits(u.path[j + 3]) } }

\* the digit strings that are the value of the query parameter id (of the
\* first one, when the query string repeats it)
QueryIds(u) ==
  LET ids == { i \in 1..Len(u.query) : u.query[i][1] = "id" }
  IN IF ids = {} THEN {}
     ELSE LET v == u.query[CHOOSE i \in ids : \A j \in ids : i <= j][2]
          IN IF IsDigits(v) THEN {v} ELSE {}

Parsable(u) == u.scheme # EmptyStr

\* C3: the Resolver never raises; on a parsable URL it returns the digit
\* string of the first pattern that matches in the order /games/<digits>,
\* ?id=<digits>, /places/<digits>; on an unparsable URL, or when no pattern
\* matches, it returns the empty result.
C3_ResolverPrecedence ==
  /\ output.status # "raised"
  /\ output.status = "returned" =>
       IF ~Parsable(input) THEN output.value = Undefined
       ELSE IF PathIds(input, "games") # {}
         THEN output.value \in PathIds(input, "games")
       ELSE IF QueryIds(input) # {}
         THEN output.value \in QueryIds(input)
       ELSE IF PathIds(input, "places") # {}
         THEN output.value \in PathIds(input, "places")
       ELSE output.value = Undefined

\* the Resolver has returned for a URL that matches all three patterns, with
\* three different ids
C3_Witness ==
  /\ output.status = "returned"
  /\ Parsable(input)
  /\ PathIds(input, "games") = {"1818"}
  /\ QueryIds(input) = {"42"}
  /\ PathIds(input, "places") = {"77"}
  /\ output.value = "1818"

-----------------------------------------------------------------------------
(* parseEmbeddedJson, main.js 80-109 *)

(*
  The text of a script block is a token sequence:
    "T"  a recognised name and its assignment, `window.__INITIAL_STATE__ =`
    "{" "}" ";"
    "U"  the JSON member "universeId":99
    "N"  the JSON member "name":"Adventure"
    "@"  the JSON member "@type":"VideoGame"
    "S"  a JSON member whose string value holds a recognised name, an
         assignment, an opening brace and more than 20 characters:
         "description":"bootstrapData={aaaaaaaaaaaaaaaaaaaaaaaa"
    "j"  text that is no JSON
  The commas between members are left out.
*)
Members == {"U", "N", "@", "S"}

\* the minimum number of characters between the braces, [\s\S]{20,}
MinBodyChars == 20

\* the number of characters of a token
TokLen(t) ==
  CASE t = "U" -> 15
    [] t = "N" -> 18
    [] t = "@" -> 19
    [] t = "S" -> 55
    [] t = "T" -> 26
    [] t = "j" -> 5
    [] OTHER   -> 1

RECURSIVE TextLen(_)
TextLen(ts) == IF ts = <<>> THEN 0 ELSE TokLen(Head(ts)) + TextLen(Tail(ts))

\* the property a member sets
MemberKey(t) ==
  CASE t = "U" -> "universeId"
    [] t = "N" -> "name"
    [] t = "@" -> "@type"
    [] OTHER   -> "description"

MemberValue(t) ==
  CASE t = "U" -> "99"
    [] t = "N" -> "Adventure"
    [] t = "@" -> "VideoGame"
    [] OTHER   -> "bootstrapData={aaaaaaaaaaaaaaaaaaaaaaaa"

\* JSON.parse(text): the text of one object, its members between the braces
\* and nothing after the closing brace; anything else is a SyntaxError
JSONParse(ts) ==
  IF /\ Len(ts) >= 2
     /\ ts[1] = "{"
     /\ ts[Len(ts)] = "}"
     /\ \A i \in 2..(Len(ts) - 1) : ts[i] \in Members
  THEN [ throws |-> FALSE,
         value  |-> Obj([ k \in { MemberKey(ts[i]) : i \in 2..(Len(ts) - 1) } |->
                           MemberValue(CHOOSE t \in Members :
                             /\ MemberKey(t) = k
                             /\ \E i \in 2..(Len(ts) - 1) : ts[i] = t) ]) ]
  ELSE [ throws |-> TRUE, value |-> NullObj ]

\* the last closing brace of the text, 0 when there is none
LastBrace(ts) ==
  LET at == { e \in 1..Len(ts) : ts[e] = "}" }
  IN IF at = {} THEN 0 ELSE CHOOSE e \in at : \A f \in at : f <= e

\* where /(name)\s*[:=]\s*(\{[\s\S]{20,}\})/ can match from: at a "T" that an
\* opening brace follows, or inside an "S"; the group {...} is greedy, it ends
\* at the last closing brace of the text, 20 characters or more after its
\* opening brace
MatchStarts(ts) ==
  { i \in 1..Len(ts) :
      \/ /\ ts[i] = "T"
         /\ i + 1 <= Len(ts)
         /\ ts[i + 1] = "{"
         /\ LastBrace(ts) > i + 1
         /\ TextLen(SubSeq(ts, i + 2, LastBrace(ts) - 1)) >= MinBodyChars
      \/ /\ ts[i] = "S"
         /\ LastBrace(ts) > i }

\* s.match(...): m[2] of the leftmost match, or null (<<>>) when none
MatchGroup2(ts) ==
  IF MatchStarts(ts) = {} THEN <<>>
  ELSE LET i == CHOOSE a \in MatchStarts(ts) : \A b \in MatchStarts(ts) : a <= b
       IN IF ts[i] = "T"
          THEN SubSeq(ts, i + 1, LastBrace(ts))
          ELSE <<"{", "j">> \o SubSeq(ts, i + 1, LastBrace(ts))

\* m[2].replace(/;$/, '')
StripSemicolon(ts) ==
  IF ts # <<>> /\ ts[Len(ts)] = ";" THEN SubSeq(ts, 1, Len(ts) - 1) ELSE ts

\* lines 85-99: the embedding convention, then the retry. returns says
\* whether the function returns here; throws whether an error escapes
ConventionParse(ts) ==
  LET m2    == MatchGroup2(ts)
      first == JSONParse(m2)
      retry == JSONParse(StripSemicolon(m2))
  IN IF m2 = <<>> THEN [returns |-> FALSE, throws |-> FALSE, value |-> NullObj]
     ELSE IF ~first.throws
       THEN [returns |-> TRUE, throws |-> FALSE, value |-> first.value]
     ELSE IF ~retry.throws
       THEN [returns |-> TRUE, throws |-> FALSE, value |-> retry.value]
     ELSE [returns |-> FALSE, throws |-> FALSE, value |-> NullObj]

\* lines 101-106: s.trim().startsWith('{') && s.includes('"@type"')
StructuredDataParse(ts) ==
  LET j == JSONParse(ts)
  IN IF ts # <<>> /\ ts[1] = "{" /\ \E i \in 1..Len(ts) : ts[i] = "@"
     THEN IF ~j.throws
          THEN [returns |-> TRUE, throws |-> FALSE, value |-> j.value]
          ELSE [returns |-> FALSE, throws |-> FALSE, value |-> NullObj]
     ELSE [returns |-> FALSE, throws |-> FALSE, value |-> NullObj]

\* a faulty variant: an empty block ends the scan
ScanBlock_StopAtEmpty(ts) ==
  IF ts = <<>> THEN [returns |-> TRUE, throws |-> FALSE, value |-> NullObj]
  ELSE IF ConventionParse(ts).returns \/ ConventionParse(ts).throws
    THEN ConventionParse(ts)
  ELSE StructuredDataParse(ts)

\* the body of the loop for one block
ScanBlock(ts) ==
  IF ts = <<>> THEN [returns |-> FALSE, throws |-> FALSE, value |-> NullObj]
  ELSE IF ConventionParse(ts).returns \/ ConventionParse(ts).throws
    THEN ConventionParse(ts)
  ELSE StructuredDataParse(ts)

RECURSIVE parseEmbeddedJson(_)
parseEmbeddedJson(scripts) ==
  IF scripts = <<>> THEN [throws |-> FALSE, value |-> NullObj]
  ELSE LET r == ScanBlock(Head(scripts))
       IN IF r.throws THEN [throws |-> TRUE, value |-> NullObj]
          ELSE IF r.returns THEN [throws |-> FALSE, value |-> r.value]
          ELSE parseEmbeddedJson(Tail(scripts))

-----------------------------------------------------------------------------
(* The inputs parseEmbeddedJson is checked on *)

MaxScripts == 3

ScriptBlocks ==
  { <<>>,
    <<"T", "{", "U", "N", "}", ";">>,
    <<"T", "{", "U", "}">>,
    <<"T", "{", "U", "N", "}", ";", "j", "}">>,
    <<"j", "T", "{", "N", "@", "}">>,
    <<"{", "@", "N", "}">>,
    <<"{", "@", "j", "}">>,
    <<"{", "@", "S", "}">>,
    <<"j">> }

InitExtract ==
  /\ input \in SeqsUpTo(ScriptBlocks, MaxScripts)
  /\ output = Pending
  /\ PipeIdle

\* one call parseEmbeddedJson($)
Extract ==
  /\ output.status = "pending"
  /\ LET r == parseEmbeddedJson(input)
     IN output' = IF r.throws
                  THEN [status |-> "raised", value |-> NullObj]
                  ELSE [status |-> "returned", value |-> r.value]
  /\ UNCHANGED <<input, pipeVars>>

SpecExtract == InitExtract /\ [][Extract]_vars

-----------------------------------------------------------------------------
(* C8: the Embedded-Data Extractor *)

\* what one block yields: the convention parse, its retry, then the
\* structured-data parse; null when none of them parses
Yield(ts) ==
  LET m2 == MatchGroup2(ts)
  IN IF ts = <<>> THEN NullObj
     ELSE IF m2 # <<>> /\ ~JSONParse(m2).throws THEN JSONParse(m2).value
     ELSE IF m2 # <<>> /\ ~JSONParse(StripSemicolon(m2)).throws
       THEN JSONParse(StripSemicolon(m2)).value
     ELSE IF /\ ts[1] = "{"
             /\ \E i \in 1..Len(ts) : ts[i] = "@"
             /\ ~JSONParse(ts).throws
       THEN JSONParse(ts).value
     ELSE NullObj

\* C8: the Extractor never raises; it returns what the first block in
\* document order that yields an object yields, and null when no block does.
C8_FirstParsedObject ==
  /\ output.status # "raised"
  /\ output.status = "returned" =>
       LET at == { i \in 1..Len(input) : Yield(input[i]) # NullObj }
       IN IF at = {} THEN output.value = NullObj
          ELSE output.value = Yield(input[CHOOSE i \in at : \A j \in at : i <= j])

\* the Extractor has returned the object of the third block, after an empty
\* block and a block whose convention parse fails
C8_Witness ==
  /\ output.status = "returned"
  /\ Len(input) = 3
  /\ input[1] = <<>>
  /\ input[2] = <<"T", "{", "U", "N", "}", ";", "j", "}">>
  /\ input[3] = <<"{", "@", "S", "}">>
  /\ output.value = Obj([k \in {"@type", "description"} |->
                          IF k = "@type" THEN "VideoGame"
                          ELSE "bootstrapData={aaaaaaaaaaaaaaaaaaaaaaaa"])

-----------------------------------------------------------------------------
(* fetchRobloxGameApiByPlaceId, fetchRobloxGameApiByUniverseId, main.js 50-77 *)

(*
  What the API answers to one request:
    kind   "throw" (fetch or res.json() rejects), "notok" (!res.ok), "json"
    shape  of the JSON: "array", "object" or "null"
    items  the elements of the array; for an object, those of its data array
    keyed  for an object, its members that are objects, by key
    self   the JSON itself as a fragment
*)
Reply(kind, shape, items, keyed, self) ==
  [kind |-> kind, shape |-> shape, items |-> items, keyed |-> keyed, self |-> self]

fetchRobloxGameApiByPlaceId(pid, reply) ==
  IF reply.kind = "throw" THEN NullObj
  ELSE IF reply.kind = "notok" THEN NullObj
  ELSE IF reply.shape = "array" /\ Len(reply.items) > 0 THEN reply.items[1]
  ELSE IF reply.shape = "object" /\ pid \in DOMAIN reply.keyed THEN reply.keyed[pid]
  ELSE reply.self

fetchRobloxGameApiByUniverseId(uid, reply) ==
  IF reply.kind = "throw" THEN NullObj
  ELSE IF reply.kind = "notok" THEN NullObj
  ELSE IF reply.shape = "object" /\ Len(reply.items) > 0 THEN reply.items[1]
  ELSE reply.self

-----------------------------------------------------------------------------
(* What the outside world holds for a request: the URL, the page, the API *)

\* the game the API knows as place 1818, universe 99
ApiGame ==
  Obj([ k \in {"rootPlaceId", "universeId", "name", "visits", "playing", "creator",
               "creator.name"} |->
          CASE k = "rootPlaceId"  -> "1818"
            [] k = "universeId"   -> "99"
            [] k = "name"         -> "Adventure Forward"
            [] k = "visits"       -> "1000000"
            [] k = "playing"      -> Zero
            [] k = "creator"      -> "[object]"
            [] OTHER              -> "Explosive" ])

\* the game as the universe endpoint gives it
UniverseGame ==
  Obj([ k \in {"rootPlaceId", "id", "name", "visits", "favoritedCount"} |->
          CASE k = "rootPlaceId"  -> "1818"
            [] k = "id"           -> "99"
            [] k = "name"         -> "Adventure Forward"
            [] k = "visits"       -> "1000000"
            [] OTHER              -> "5000" ])

NoKeyed == [k \in {} |-> NullObj]

ReplyThrow     == Reply("throw", "null", <<>>, NoKeyed, NullObj)
ReplyNotOk     == Reply("notok", "null", <<>>, NoKeyed, NullObj)
ReplyArray     == Reply("json", "array", <<ApiGame>>, NoKeyed, EmptyArr)
ReplyEmptyArr  == Reply("json", "array", <<>>, NoKeyed, EmptyArr)
ReplyKeyed     == Reply("json", "object", <<>>, [k \in {"77"} |-> ApiGame], Obj(NoFields))
ReplyData      == Reply("json", "object", <<UniverseGame>>, NoKeyed, Obj(NoFields))
ReplyNoData    == Reply("json", "object", <<>>, NoKeyed, Obj(NoFields))

Url(scheme, path, query) == [scheme |-> scheme, path |-> path, query |-> query]

Page(scripts, h1, ogTitle, title, statText, playingText) ==
  [ scripts |-> scripts, h1 |-> h1, ogTitle |-> ogTitle, title |-> title,
    statText |-> statText, playingText |-> playingText ]

\* the pages: one that embeds its state with a universe id, one with
\* structured data only, one with nothing
PageEmbedded ==
  Page(<<<<"j">>, <<"T", "{", "U", "N", "}", ";">>>>, "Adventure Forward", EmptyStr,
       "Adventure Forward - Roblox", "1,234", "12 playing")
PageStructured ==
  Page(<<<<>>, <<"{", "@", "N", "}">>>>, EmptyStr, "Some Place", EmptyStr,
       EmptyStr, EmptyStr)
PageBare ==
  Page(<<>>, EmptyStr, Undefined, EmptyStr, EmptyStr, EmptyStr)

Scenario(text, url, page, placeReply, universeReply) ==
  [ text |-> text, url |-> url, page |-> page,
    placeReply |-> placeReply, universeReply |-> universeReply ]

\* the requests a crawl may hold; the request queue keeps one request per URL
ScenarioList ==
  << Scenario("https://www.roblox.com/games/1818/x",
              Url("https:", <<"/", "games", "/", "1818", "/", "x">>, <<>>),
              PageEmbedded, ReplyArray, ReplyData),
     Scenario("https://www.roblox.com/games/1818?id=42",
              Url("https:", <<"/", "games", "/", "1818">>, << <<"id", "42">> >>),
              PageEmbedded, ReplyNotOk, ReplyData),
     Scenario("https://www.roblox.com/x",
              Url("https:", <<"/", "x">>, <<>>),
              PageBare, ReplyThrow, ReplyThrow),
     Scenario("https://www.roblox.com/places/77",
              Url("https:", <<"/", "places", "/", "77">>, <<>>),
              PageStructured, ReplyKeyed, ReplyNoData),
     Scenario("https://www.roblox.com/x?id=42x",
              Url("https:", <<"/", "x">>, << <<"id", "42x">> >>),
              PageEmbedded, ReplyThrow, ReplyData),
     Scenario("https://www.roblox.com/x/1818?id=42",
              Url("https:", <<"/", "x", "/", "1818">>, << <<"id", "42">> >>),
              PageEmbedded, ReplyThrow, ReplyNoData),
     Scenario("https://www.roblox.com/games/77",
              Url("https:", <<"/", "games", "/", "77">>, <<>>),
              PageEmbedded, ReplyEmptyArr, ReplyData) >>

\* encodeURIComponent(url)
encodeURIComponent(text) ==
  CASE text = "https://www.roblox.com/games/1818/x"
         -> "https%3A%2F%2Fwww.roblox.com%2Fgames%2F1818%2Fx"
    [] text = "https://www.roblox.com/games/1818?id=42"
         -> "https%3A%2F%2Fwww.roblox.com%2Fgames%2F1818%3Fid%3D42"
    [] text = "https://www.roblox.com/x"
         -> "https%3A%2F%2Fwww.roblox.com%2Fx"
    [] text = "https://www.roblox.com/places/77"
         -> "https%3A%2F%2Fwww.roblox.com%2Fplaces%2F77"
    [] text = "https://www.roblox.com/x?id=42x"
         -> "https%3A%2F%2Fwww.roblox.com%2Fx%3Fid%3D42x"
    [] text = "https://www.roblox.com/games/77"
         -> "https%3A%2F%2Fwww.roblox.com%2Fgames%2F77"
    [] OTHER
         -> "https%3A%2F%2Fwww.roblox.com%2Fx%2F1818%3Fid%3D42"

\* text.replace(/[^0-9]/g, '')
DigitsOnly(text) ==
  CASE text = "1,234"      -> "1234"
    [] text = "12 playing" -> "12"
    [] OTHER               -> EmptyStr

-----------------------------------------------------------------------------
(* cheerioHandler, main.js 133-190; playwrightHandler, main.js 193-243 *)

\* the number of requests of the crawl
NumRequests == 2

Requests == 1..NumRequests

\* what the outside world holds for request u
S(u) == ScenarioList[scen[u]]

\* cheerioHandler, lines 158-161: the selector fallbacks
CheerioName(page)   == Or(Or(page.h1, page.ogTitle), EmptyStr)
CheerioVisits(page) ==
  IF Truthy(page.statText) THEN DigitsOnly(page.statText) ELSE Null

\* cheerioHandler, line 176
CheerioPageData(page, pj, api) ==
  Obj(Spread([ k \in {"name", "visits"} |->
                 IF k = "name"
                 THEN Or(Or(CheerioName(page), Get(pj, "name")), EmptyStr)
                 ELSE IF TruthyObj(api) THEN Get(api, "visits")
                 ELSE CheerioVisits(page) ],
             pj.fields))

\* playwrightHandler, lines 217-225 and 233
PlaywrightPageData(page) ==
  Obj([ k \in {"name", "playing"} |->
          IF k = "name" THEN Or(Or(page.title, page.h1), EmptyStr)
          ELSE IF Truthy(page.playingText) THEN DigitsOnly(page.playingText)
          ELSE Null ])

PageDataOf(u, pj, api) ==
  IF useBrowser THEN PlaywrightPageData(S(u).page)
  ELSE CheerioPageData(S(u).page, pj, api)

\* a faulty variant: the place lookup does not look at useApi
PlaceLookupWanted_IgnoresUseApi(pid) == Truthy(pid)

\* lines 165 and 229
PlaceLookupWanted(pid) == useApi /\ Truthy(pid)

\* a faulty variant: the secondary lookup does not look at what the first returned
UniverseLookupWanted_AlsoAfterData(api, pj) ==
  /\ ~useBrowser
  /\ useApi
  /\ TruthyObj(pj)
  /\ Truthy(Get(pj, "universeId"))
  /\ checkPlaceDetails

\* line 170; playwrightHandler has no such step
UniverseLookupWanted(api, pj) ==
  /\ ~useBrowser
  /\ ~TruthyObj(api)
  /\ useApi
  /\ TruthyObj(pj)
  /\ Truthy(Get(pj, "universeId"))
  /\ checkPlaceDetails

\* lines 185 and 238; a key is held as <<"experiences", rest>>
SinkKey(u) ==
  IF Truthy(placeId[u]) THEN <<"experiences", placeId[u]>>
  ELSE <<"experiences", encodeURIComponent(S(u).text)>>

\* lines 186 and 239
SinkValue(u) ==
  IF useBrowser
  THEN [url |-> S(u).text, apiData |-> apiData[u],
        pageData |-> PlaywrightPageData(S(u).page)]
  ELSE [url |-> S(u).text, apiData |-> apiData[u], pageJson |-> pageJson[u]]

\* lines 174-181 and 233-235: normalizeRecord, then dataset.pushData is called
Finish(u, pid, pj, api) ==
  /\ apiData' = [apiData EXCEPT ![u] = api]
  /\ record' = [record EXCEPT ![u] =
                  normalizeRecord(api, PageDataOf(u, pj, api), S(u).text, pid, Timestamp)]
  /\ sinkOps' = [sinkOps EXCEPT ![u] = Append(@, <<"pushData">>)]
  /\ pc' = [pc EXCEPT ![u] = "awaitPush"]

\* lines 169-172: the secondary lookup is called, or the handler goes on
AfterPlaceLookup(u, pid, pj, api, cs) ==
  IF UniverseLookupWanted(api, pj)
  THEN /\ calls' = [calls EXCEPT ![u] = Append(cs, <<"byUniverseId", Get(pj, "universeId")>>)]
       /\ apiData' = [apiData EXCEPT ![u] = api]
       /\ pc' = [pc EXCEPT ![u] = "awaitUniverse"]
       /\ UNCHANGED <<record, sinkOps>>
  ELSE /\ calls' = [calls EXCEPT ![u] = cs]
       /\ Finish(u, pid, pj, api)

\* the handler from its entry to its first await on the API or the dataset
Start(u) ==
  /\ pc[u] = "queued"
  /\ LET pid == Or(extractIdsFromUrl(S(u).url).placeId, Null)
         pj  == IF useBrowser THEN NullObj
                ELSE parseEmbeddedJson(S(u).page.scripts).value
     IN /\ placeId' = [placeId EXCEPT ![u] = pid]
        /\ pageJson' = [pageJson EXCEPT ![u] = pj]
        /\ IF PlaceLookupWanted(pid)
           THEN /\ calls' = [calls EXCEPT ![u] = Append(@, <<"byPlaceId", pid>>)]
                /\ pc' = [pc EXCEPT ![u] = "awaitPlace"]
                /\ UNCHANGED <<apiData, record, sinkOps>>
           ELSE AfterPlaceLookup(u, pid, pj, NullObj, calls[u])
  /\ UNCHANGED <<pureVars, useApi, checkPlaceDetails, useBrowser, scen, dataset,
                 kv, kvLog, warnings>>

\* fetchRobloxGameApiByPlaceId settles
PlaceReply(u) ==
  /\ pc[u] = "awaitPlace"
  /\ AfterPlaceLookup(u, placeId[u], pageJson[u],
                      fetchRobloxGameApiByPlaceId(placeId[u], S(u).placeReply),
                      calls[u])
  /\ UNCHANGED <<pureVars, useApi, checkPlaceDetails, useBrowser, scen, placeId,
                 pageJson, dataset, kv, kvLog, warnings>>

\* fetchRobloxGameApiByUniverseId settles
UniverseReply(u) ==
  /\ pc[u] = "awaitUniverse"
  /\ Finish(u, placeId[u], pageJson[u],
            fetchRobloxGameApiByUniverseId(Get(pageJson[u], "universeId"),
                                           S(u).universeReply))
  /\ UNCHANGED <<pureVars, useApi, checkPlaceDetails, useBrowser, scen, placeId,
                 pageJson, calls, dataset, kv, kvLog, warnings>>

\* a faulty variant: a record is appended only when the dataset holds none of the
\* same place id
PushOk_DedupByPlaceId(u) ==
  /\ pc[u] = "awaitPush"
  /\ dataset' = IF \E i \in 1..Len(dataset) : dataset[i].place_id = record[u].place_id
                THEN dataset
                ELSE Append(dataset, record[u])
  /\ sinkOps' = [sinkOps EXCEPT ![u] = Append(@, <<"setValue">> \o SinkKey(u))]
  /\ pc' = [pc EXCEPT ![u] = "awaitKv"]
  /\ UNCHANGED <<pureVars, useApi, checkPlaceDetails, useBrowser, scen, placeId,
                 pageJson, apiData, record, calls, kv, kvLog, warnings>>

\* dataset.pushData resolves; kv.setValue is called
PushOk(u) ==
  /\ pc[u] = "awaitPush"
  /\ dataset' = Append(dataset, record[u])
  /\ sinkOps' = [sinkOps EXCEPT ![u] = Append(@, <<"setValue">> \o SinkKey(u))]
  /\ pc' = [pc EXCEPT ![u] = "awaitKv"]
  /\ UNCHANGED <<pureVars, useApi, checkPlaceDetails, useBrowser, scen, placeId,
                 pageJson, apiData, record, calls, kv, kvLog, warnings>>

\* dataset.pushData rejects: nothing catches it, the handler rejects
PushFail(u) ==
  /\ pc[u] = "awaitPush"
  /\ pc' = [pc EXCEPT ![u] = "raised"]
  /\ UNCHANGED <<pureVars, useApi, checkPlaceDetails, useBrowser, scen, placeId,
                 pageJson, apiData, record, calls, dataset, kv, kvLog, sinkOps,
                 warnings>>

\* kv.setValue resolves
KvOk(u) ==
  /\ pc[u] = "awaitKv"
  /\ kv' = (SinkKey(u) :> SinkValue(u)) @@ kv
  /\ kvLog' = Append(kvLog, u)
  /\ pc' = [pc EXCEPT ![u] = "done"]
  /\ UNCHANGED <<pureVars, useApi, checkPlaceDetails, useBrowser, scen, placeId,
                 pageJson, apiData, record, calls, dataset, sinkOps, warnings>>

\* kv.setValue rejects: the catch block logs a warning
KvFail(u) ==
  /\ pc[u] = "awaitKv"
  /\ warnings' = warnings \cup {u}
  /\ pc' = [pc EXCEPT ![u] = "done"]
  /\ UNCHANGED <<pureVars, useApi, checkPlaceDetails, useBrowser, scen, placeId,
                 pageJson, apiData, record, calls, dataset, kv, kvLog, sinkOps>>

\* the input, lines 9-19, and the request queue
Init ==
  /\ input = Null
  /\ output = Pending
  /\ useApi \in BOOLEAN
  /\ checkPlaceDetails \in BOOLEAN
  /\ useBrowser \in BOOLEAN
  /\ scen \in { f \in [Requests -> 1..Len(ScenarioList)] :
                  \A u, v \in Requests : u < v => f[u] < f[v] }
  /\ pc = [u \in Requests |-> "queued"]
  /\ placeId = [u \in Requests |-> Null]
  /\ pageJson = [u \in Requests |-> NullObj]
  /\ apiData = [u \in Requests |-> NullObj]
  /\ record = [u \in Requests |-> NullObj]
  /\ calls = [u \in Requests |-> <<>>]
  /\ dataset = <<>>
  /\ kv = <<>>
  /\ kvLog = <<>>
  /\ sinkOps = [u \in Requests |-> <<>>]
  /\ warnings = {}

Next ==
  \E u \in Requests :
    \/ Start(u)
    \/ PlaceReply(u)
    \/ UniverseReply(u)
    \/ PushOk(u)
    \/ PushFail(u)
    \/ KvOk(u)
    \/ KvFail(u)

Spec == Init /\ [][Next]_vars

-----------------------------------------------------------------------------
(* C4, C5, C6, C7, C9, C10: the page pipelines *)

\* the property of pageData a data field falls back to
PageKey(f) == IF f = "experience_id" THEN "experienceId" ELSE f

\* the requests whose URL is url
RequestsOf(url) == { u \in Requests : S(u).text = url }

\* C4: with useApi false no pipeline invokes byPlaceId or byUniverseId, and
\* every record written has raw_api null, each data field being the value
\* pageData holds for it or the field's absent value (place_id: the
\* Resolver's id, pageData's, or null).
C4_NoApiWhenDisabled ==
  ~useApi =>
    /\ \A u \in Requests : calls[u] = <<>>
    /\ \A i \in 1..Len(dataset) :
         LET r == dataset[i]
         IN /\ r.raw_api = NullObj
            /\ \A f \in DataFields \ {"place_id"} :
                 r[f] \in {Get(r.raw_page, PageKey(f)), AbsentValue(f)}
            /\ \E u \in RequestsOf(r.url) :
                 r.place_id \in {placeId[u], Get(r.raw_page, "placeId"), Null}

\* with useApi false, a URL with a place id has been written, its visits
\* taken from the page
C4_Witness ==
  /\ ~useApi
  /\ \E u \in Requests :
       /\ pc[u] = "done"
       /\ placeId[u] = "1818"
       /\ \E i \in 1..Len(dataset) :
            /\ dataset[i].url = S(u).text
            /\ dataset[i].visits = "1234"
            /\ dataset[i].raw_api = NullObj

IsCall(c, op) == c[1] = op

\* what the place-id lookup of request u returns
PlaceLookupResult(u) ==
  fetchRobloxGameApiByPlaceId(placeId[u], S(u).placeReply)

\* C5: a pipeline invokes byUniverseId at most once, never before
\* byPlaceId, and only if useApi and checkPlaceDetails are true, the place-id
\* lookup yielded nothing (not invoked, there being no place id, or invoked
\* and returned no data) and the Extractor's result carries a universe id.
C5_UniverseLookupSecondary ==
  \A u \in Requests :
    LET cs == calls[u]
        pj == parseEmbeddedJson(S(u).page.scripts).value
    IN /\ Cardinality({ i \in 1..Len(cs) : IsCall(cs[i], "byUniverseId") }) <= 1
       /\ \A i, j \in 1..Len(cs) :
            (IsCall(cs[i], "byUniverseId") /\ IsCall(cs[j], "byPlaceId")) => j < i
       /\ (\E i \in 1..Len(cs) : IsCall(cs[i], "byUniverseId")) =>
            /\ useApi
            /\ checkPlaceDetails
            /\ \/ /\ \A i \in 1..Len(cs) : ~IsCall(cs[i], "byPlaceId")
                  /\ ~Truthy(placeId[u])
               \/ /\ \E i \in 1..Len(cs) : IsCall(cs[i], "byPlaceId")
                  /\ pc[u] # "awaitPlace"
                  /\ PlaceLookupResult(u) = NullObj
            /\ Truthy(Get(pj, "universeId"))

\* a pipeline has called byPlaceId, got nothing, and then byUniverseId
C5_Witness ==
  \E u \in Requests :
    /\ calls[u] = << <<"byPlaceId", "1818">>, <<"byUniverseId", "99">> >>
    /\ pc[u] = "done"
    /\ PlaceLookupResult(u) = NullObj

Finished(u) == pc[u] \in {"done", "raised"}

\* the key the spec gives the blob of request u
ResolverKey(u) ==
  LET id == extractIdsFromUrl(S(u).url).placeId
  IN IF id # Undefined THEN <<"experiences", id>>
     ELSE <<"experiences", encodeURIComponent(S(u).text)>>

\* C6: the pipeline of every processed URL, once it has ended, has made
\* exactly one append to the dataset followed by exactly one blob-store write,
\* under the key experiences/<placeId> when the Resolver found a place id and
\* experiences/<url-encoded url> otherwise.
C6_OneAppendOneWrite ==
  \A u \in Requests :
    Finished(u) =>
      sinkOps[u] = << <<"pushData">>, <<"setValue">> \o ResolverKey(u) >>

\* C7: no pipeline ends by raising an error, whatever sink write fails.
C7_SinkFailureSwallowed ==
  \A u \in Requests : pc[u] # "raised"

\* the API phase of the static pipeline on the inputs of request u: the
\* place-id lookup, then the universe-id secondary lookup
StaticApiPhase(u) ==
  LET pid   == Or(extractIdsFromUrl(S(u).url).placeId, Null)
      pj    == parseEmbeddedJson(S(u).page.scripts).value
      place == useApi /\ Truthy(pid)
      first == IF place
               THEN fetchRobloxGameApiByPlaceId(pid, S(u).placeReply)
               ELSE NullObj
      cs    == IF place THEN << <<"byPlaceId", pid>> >> ELSE <<>>
  IN IF /\ ~TruthyObj(first) /\ useApi /\ checkPlaceDetails
        /\ Truthy(Get(pj, "universeId"))
     THEN [ calls   |-> Append(cs, <<"byUniverseId", Get(pj, "universeId")>>),
            apiData |-> fetchRobloxGameApiByUniverseId(Get(pj, "universeId"),
                                                       S(u).universeReply) ]
     ELSE [ calls |-> cs, apiData |-> first ]

\* C9: in either mode, a pipeline that has reached the Normalizer has issued
\* the API calls of the shared post-fetch sequence and passes its apiData to
\* the Normalizer: what the static pipeline does for the same URL, page, API
\* responses and configuration.
C9_ModesShareApiPhase ==
  \A u \in Requests :
    pc[u] \in {"awaitPush", "awaitKv", "done", "raised"} =>
      /\ calls[u] = StaticApiPhase(u).calls
      /\ apiData[u] = StaticApiPhase(u).apiData

\* what the pipeline of request u computes from its own URL, page and API
\* responses alone
OwnPlaceId(u) == Or(extractIdsFromUrl(S(u).url).placeId, Null)

OwnPageJson(u) ==
  IF useBrowser THEN NullObj ELSE parseEmbeddedJson(S(u).page.scripts).value

OwnApiData(u) ==
  IF useBrowser
  THEN IF useApi /\ Truthy(OwnPlaceId(u))
       THEN fetchRobloxGameApiByPlaceId(OwnPlaceId(u), S(u).placeReply)
       ELSE NullObj
  ELSE StaticApiPhase(u).apiData

OwnRecord(u) ==
  normalizeRecord(OwnApiData(u), PageDataOf(u, OwnPageJson(u), OwnApiData(u)),
                  S(u).text, OwnPlaceId(u), Timestamp)

OwnBlob(u) ==
  IF useBrowser
  THEN [url |-> S(u).text, apiData |-> OwnApiData(u),
        pageData |-> PlaywrightPageData(S(u).page)]
  ELSE [url |-> S(u).text, apiData |-> OwnApiData(u), pageJson |-> OwnPageJson(u)]

Normalized(u) == pc[u] \in {"awaitPush", "awaitKv", "done", "raised"}

\* the last request whose write under key k resolved
LastWriter(k) ==
  LET at == { i \in 1..Len(kvLog) : SinkKey(kvLog[i]) = k }
  IN kvLog[CHOOSE i \in at : \A j \in at : j <= i]

\* the record and the blob of a pipeline depend on its own inputs only; the
\* blob store holds, under each key, the value of the pipeline that wrote last
IsolationAndLastWrite ==
  /\ \A u \in Requests : Normalized(u) => record[u] = OwnRecord(u)
  /\ DOMAIN kv = { SinkKey(kvLog[i]) : i \in 1..Len(kvLog) }
  /\ \A k \in DOMAIN kv : kv[k] = OwnBlob(LastWriter(k))

\* C10 as stated: under every interleaving each pipeline's record and blob
\* depend on its own inputs only, N processed URLs produce N dataset records,
\* and a shared key holds the value of whichever pipeline wrote last.
C10_Original ==
  /\ IsolationAndLastWrite
  /\ (\A u \in Requests : Finished(u)) => Len(dataset) = NumRequests

\* C10 as amended: the dataset holds exactly one record for each pipeline
\* whose append resolved, its own, and none for a pipeline whose append
\* rejected, whether or not several pipelines resolve to the same place id.
C10_IsolatedPipelines ==
  /\ IsolationAndLastWrite
  /\ Len(dataset) = Cardinality({ u \in Requests : pc[u] \in {"awaitKv", "done"} })
  /\ \A u \in Requests :
       Cardinality({ i \in 1..Len(dataset) : dataset[i] = OwnRecord(u) })
         = IF pc[u] \in {"awaitKv", "done"} THEN 1 ELSE 0

\* two pipelines of the same place id have ended, both blob writes resolved:
\* two records, one blob
C10_Witness ==
  /\ \A u \in Requests : pc[u] = "done"
  /\ \E u, v \in Requests :
       /\ u # v
       /\ placeId[u] = "1818" /\ placeId[v] = "1818"
       /\ Len(kvLog) >= 2
       /\ kvLog[Len(kvLog)] = u
       /\ kvLog[Len(kvLog) - 1] = v
       /\ kv[SinkKey(v)] = OwnBlob(u)
       /\ OwnBlob(u) # OwnBlob(v)
  /\ Len(dataset) = NumRequests

=============================================================================
